---- MODULE Spec2Model ----
(***************************************************************************)
(* The in-memory triple store of pymantic/primitives.py: the terms,        *)
(* the auto-creating nested index (Index), Graph (a set of triples plus    *)
(* the SPO, POS and OSP index trees) and Dataset (graph names -> Graph).   *)
(* The source is Python 2: conditions such as "if subject:" are Python     *)
(* truth tests, and dict/set iterators raise RuntimeError when the         *)
(* container they read changes size between two steps.                     *)
(***************************************************************************)
EXTENDS Integers, FiniteSets, Sequences, TLC

\* Largest number of triples one Graph holds in the model.
MaxTriples == 2
\* Largest number of triples of the operand of addAll and merge.
MaxOther == 1

(***************************************************************************)
(* Terms                                                                   *)
(***************************************************************************)

\* Python's None: the default of every optional argument.
None == "None"

\* class NamedNode(unicode): a string, equal to another by its characters.
\* The brackets keep the node named u'None' apart from None.
NamedNode(v) == "<" \o v \o ">"

\* Python's truth test bool(x), as used by "if subject:", "if graph:" and
\* "named or graph.uri": None is false and a unicode string, hence a
\* NamedNode, is false exactly when it is empty.
Truthy(x) == x # None /\ x # NamedNode("")

\* Graph(): graph_uri = None is wrapped as NamedNode(None) = u'None'.
DefaultUri == NamedNode("None")

\* The terms the model draws subjects, predicates and objects from.
Subjects == {NamedNode(""), NamedNode("http://ex/s")}
Predicates == {NamedNode("http://ex/p"), NamedNode("http://ex/other")}
Objects == {NamedNode("http://ex/o")}

\* class Triple(tuple): Triple(subject, predicate, object).
Triple(s, p, o) == [subject |-> s, predicate |-> p, object |-> o]

Triples == {Triple(s, p, o) : s \in Subjects, p \in Predicates, o \in Objects}

\* The arguments a pattern can take in each position: a term or None.
Patterns ==
    {Triple(s, p, o) : s \in Subjects \cup {None},
                       p \in Predicates \cup {None},
                       o \in Objects \cup {None}}

\* The patterns removeMatches is called with: those of non-empty terms.
RemovePatterns == {pat \in Patterns : pat.subject # NamedNode("")}

(***************************************************************************)
(* Index: defaultdict(Index), a nested mapping whose levels are created on *)
(* first read.                                                             *)
(***************************************************************************)

EmptyIndex == [k \in {} |-> {}]

\* idx[k] as a value: a missing key reads as a fresh empty Index.
IdxGet(idx, k) == IF k \in DOMAIN idx THEN idx[k] ELSE EmptyIndex

\* idx[k] = v
IdxPut(idx, k, v) ==
    [x \in DOMAIN idx \cup {k} |-> IF x = k THEN v ELSE idx[x]]

\* del idx[k] (k present)
IdxDel(idx, k) == [x \in DOMAIN idx \ {k} |-> idx[x]]

\* The effect on idx of reading idx[a]: the key a now exists.
Touch1(idx, a) == IdxPut(idx, a, IdxGet(idx, a))

\* The effect on idx of reading idx[a][b].
Touch2(idx, a, b) == IdxPut(idx, a, Touch1(IdxGet(idx, a), b))

\* idx[a][b][c] = t
Store3(idx, a, b, c, t) ==
    IdxPut(idx, a,
           IdxPut(IdxGet(idx, a), b,
                  IdxPut(IdxGet(IdxGet(idx, a), b), c, t)))

\* del idx[a][b][c]
Del3(idx, a, b, c) ==
    IdxPut(idx, a,
           IdxPut(IdxGet(idx, a), b,
                  IdxDel(IdxGet(IdxGet(idx, a), b), c)))

\* Whether idx[a][b][c] exists, without reading through the defaultdict.
Has3(idx, a, b, c) ==
    /\ a \in DOMAIN idx
    /\ b \in DOMAIN idx[a]
    /\ c \in DOMAIN idx[a][b]

\* d.itervalues() of a leaf level
Values(d) == {d[k] : k \in DOMAIN d}

\* for k in idx[a]: for triple in idx[a][k].itervalues(): yield triple
Values2(idx, a) ==
    UNION {Values(IdxGet(idx, a)[k]) : k \in DOMAIN IdxGet(idx, a)}

(***************************************************************************)
(* Graph                                                                   *)
(***************************************************************************)

\* Graph.__init__
NewGraph(uri) ==
    [uri |-> uri, triples |-> {}, spo |-> EmptyIndex, pos |-> EmptyIndex,
     osp |-> EmptyIndex]

\* Graph.__contains__
GraphContains(g, t) == t \in g.triples

\* Graph.__len__
GraphLen(g) == Cardinality(g.triples)

\* A faulty add: the subject's branch of the SPO tree is replaced, not
\* descended into.
GraphAddOverwritesBranch(g, t) ==
    [g EXCEPT !.triples = @ \cup {t},
              !.spo = IdxPut(@, t.subject,
                             IdxPut(EmptyIndex, t.predicate,
                                    IdxPut(EmptyIndex, t.object, t))),
              !.pos = Store3(@, t.predicate, t.object, t.subject, t),
              !.osp = Store3(@, t.object, t.subject, t.predicate, t)]

\* Graph.add
GraphAdd(g, t) ==
    [g EXCEPT !.triples = @ \cup {t},
              !.spo = Store3(@, t.subject, t.predicate, t.object, t),
              !.pos = Store3(@, t.predicate, t.object, t.subject, t),
              !.osp = Store3(@, t.object, t.subject, t.predicate, t)]

\* A faulty remove: the OSP tree keeps the triple.
GraphRemoveForgetsOsp(g, t) ==
    IF t \notin g.triples
    THEN [g |-> g, err |-> "KeyError"]
    ELSE [g |-> [g EXCEPT !.triples = @ \ {t},
                          !.spo = Del3(@, t.subject, t.predicate, t.object),
                          !.pos = Del3(@, t.predicate, t.object, t.subject)],
          err |-> ""]

\* A faulty remove: set.discard in place of set.remove, so that an absent
\* triple is only noticed by the first del, after its read of
\* self._spo[subject][predicate] created that branch.
GraphRemoveDiscards(g, t) ==
    IF t \notin g.triples
    THEN [g |-> [g EXCEPT !.spo = Touch2(@, t.subject, t.predicate)],
          err |-> "KeyError"]
    ELSE [g |-> [g EXCEPT !.triples = @ \ {t},
                          !.spo = Del3(@, t.subject, t.predicate, t.object),
                          !.pos = Del3(@, t.predicate, t.object, t.subject),
                          !.osp = Del3(@, t.object, t.subject, t.predicate)],
          err |-> ""]

\* A faulty remove: the primary set keeps the triple.
GraphRemoveKeepsSet(g, t) ==
    IF t \notin g.triples
    THEN [g |-> g, err |-> "KeyError"]
    ELSE [g |-> [g EXCEPT !.spo = Del3(@, t.subject, t.predicate, t.object),
                          !.pos = Del3(@, t.predicate, t.object, t.subject),
                          !.osp = Del3(@, t.object, t.subject, t.predicate)],
          err |-> ""]

\* A faulty remove: "del self._spo[subject]", the whole branch of the
\* subject, in place of the one entry.
GraphRemoveDropsSubject(g, t) ==
    IF t \notin g.triples
    THEN [g |-> g, err |-> "KeyError"]
    ELSE [g |-> [g EXCEPT !.triples = @ \ {t},
                          !.spo = IdxDel(@, t.subject),
                          !.pos = Del3(@, t.predicate, t.object, t.subject),
                          !.osp = Del3(@, t.object, t.subject, t.predicate)],
          err |-> ""]

\* Graph.remove: set.remove raises KeyError before anything is changed.
GraphRemove(g, t) ==
    IF t \notin g.triples
    THEN [g |-> g, err |-> "KeyError"]
    ELSE [g |-> [g EXCEPT !.triples = @ \ {t},
                          !.spo = Del3(@, t.subject, t.predicate, t.object),
                          !.pos = Del3(@, t.predicate, t.object, t.subject),
                          !.osp = Del3(@, t.object, t.subject, t.predicate)],
          err |-> ""]

\* Graph.match, consumed to its end: the triples it yields (res), the graph
\* after the reads through the defaultdicts (g), and whether the sequence
\* is read from a live dict or set of the graph (live).
GraphMatch(g, s, p, o) ==
    IF Truthy(s)
    THEN IF Truthy(p)
         THEN IF Truthy(o)
              THEN [g |-> g, live |-> FALSE,
                    res |-> IF GraphContains(g, Triple(s, p, o))
                            THEN {Triple(s, p, o)} ELSE {}]
              ELSE [g |-> [g EXCEPT !.spo = Touch2(@, s, p)], live |-> TRUE,
                    res |-> Values(IdxGet(IdxGet(g.spo, s), p))]
         ELSE IF Truthy(o)
              THEN [g |-> [g EXCEPT !.osp = Touch2(@, o, s)], live |-> TRUE,
                    res |-> Values(IdxGet(IdxGet(g.osp, o), s))]
              ELSE [g |-> [g EXCEPT !.spo = Touch1(@, s)], live |-> TRUE,
                    res |-> Values2(g.spo, s)]
    ELSE IF Truthy(p)
         THEN IF Truthy(o)
              THEN [g |-> [g EXCEPT !.pos = Touch2(@, p, o)], live |-> TRUE,
                    res |-> Values(IdxGet(IdxGet(g.pos, p), o))]
              ELSE [g |-> [g EXCEPT !.pos = Touch1(@, p)], live |-> TRUE,
                    res |-> Values2(g.pos, p)]
         ELSE IF Truthy(o)
              THEN [g |-> [g EXCEPT !.osp = Touch1(@, o)], live |-> TRUE,
                    res |-> Values2(g.osp, o)]
              ELSE [g |-> g, live |-> TRUE, res |-> g.triples]

\* Graph.removeMatches: "for triple in self.match(...): self.remove(triple)".
\* match is a generator, so the first triple it yields (first) is removed
\* while the generator is suspended; the next step of a generator reading a
\* live dict or set then finds its size changed and raises RuntimeError.
\* With all three arguments bound the generator reads no container.
GraphRemoveMatches(g, s, p, o, first) ==
    LET m == GraphMatch(g, s, p, o)
    IN  IF m.res = {}
        THEN [g |-> m.g, err |-> ""]
        ELSE [g |-> GraphRemove(m.g, first).g,
              err |-> IF m.live THEN "RuntimeError" ELSE ""]

\* Graph.addAll: repeated add
RECURSIVE GraphAddAll(_, _)
GraphAddAll(g, ts) ==
    IF ts = {}
    THEN g
    ELSE LET t == CHOOSE x \in ts : TRUE
         IN  GraphAddAll(GraphAdd(g, t), ts \ {t})

\* A faulty merge: the triples are added to self, which is returned.
GraphMergeIntoSelf(self, other) ==
    [new |-> GraphAddAll(self, other.triples),
     self |-> GraphAddAll(self, other.triples),
     other |-> other]

\* Graph.merge: a new Graph() that receives the triples of graph (other) and
\* of self; the post-states of both operands are returned with it.
GraphMerge(self, other) ==
    [new |-> GraphAddAll(GraphAddAll(NewGraph(DefaultUri), other.triples),
                         self.triples),
     self |-> self,
     other |-> other]

(***************************************************************************)
(* The Graph state machine: one Graph g, the operation last completed on   *)
(* it (last) and the one before that (before). The Dataset machine further *)
(* down has its own variables ds, dlast and dbefore; each machine leaves   *)
(* the other's variables alone. So does the Literal machine, whose         *)
(* variable lit is the Literal construction last attempted, and the        *)
(* BlankNode machine: the number of BlankNode objects constructed (bnodes), *)
(* a Graph of triples about them (bgraph), the (node, predicate) pairs     *)
(* added to it (badded) and the call last completed (blast). The last     *)
(* machine runs Graph.add and Graph.remove statement by statement in one   *)
(* thread on a Graph (tg) that a second thread reads: writer is the call   *)
(* in progress and the number of its statements executed, seen is what the *)
(* reader last observed.                                                   *)
(***************************************************************************)
VARIABLES g, last, before, ds, dlast, dbefore, lit,
          bnodes, bgraph, badded, blast, tg, writer, seen

gvars == <<g, last, before>>

dvars == <<ds, dlast, dbefore>>

lvars == <<lit>>

bvars == <<bnodes, bgraph, badded, blast>>

tvars == <<tg, writer, seen>>

vars == <<g, last, before, ds, dlast, dbefore, lit,
          bnodes, bgraph, badded, blast, tg, writer, seen>>

\* The variables of the machines other than the Graph machine, the Dataset
\* machine, the Literal machine, the BlankNode machine and the two threads.
notGraph == <<dvars, lvars, bvars, tvars>>

notDataset == <<gvars, lvars, bvars, tvars>>

notLiteral == <<gvars, dvars, bvars, tvars>>

notBlank == <<gvars, dvars, lvars, tvars>>

notThreads == <<gvars, dvars, lvars, bvars>>

NoTriple == Triple(None, None, None)

NoGraph == NewGraph(None)

\* The record of a completed call: the operation, its argument (a triple or
\* a pattern), the graph before the call, the triples a match yielded, the
\* error raised ("" for none), the operand graph before and after the call,
\* and the graph returned by merge.
OpRecord(op, arg, pre, res, err, other, otherPost, out) ==
    [op |-> op, arg |-> arg, pre |-> pre, res |-> res, err |-> err,
     other |-> other, otherPost |-> otherPost, out |-> out]

Call(op, arg, pre, res, err) ==
    OpRecord(op, arg, pre, res, err, NoGraph, NoGraph, NoGraph)

\* What before keeps of a call: of an add, its triple and what the caller
\* saw before it (len(g) and "t in g"); of any other call, nothing.
Summary(r) ==
    IF r.op = "add"
    THEN [op |-> "add", arg |-> r.arg, len |-> GraphLen(r.pre),
          has |-> GraphContains(r.pre, r.arg)]
    ELSE [op |-> "other", arg |-> NoTriple, len |-> 0, has |-> FALSE]

\* The operand of addAll and merge: a Graph built by adds.
Others ==
    {GraphAddAll(NewGraph(DefaultUri), ts) :
        ts \in {x \in SUBSET Triples : Cardinality(x) <= MaxOther}}

InitGraph ==
    /\ g = NewGraph(DefaultUri)
    /\ last = Call("init", NoTriple, NoGraph, {}, "")
    /\ before = Summary(Call("init", NoTriple, NoGraph, {}, ""))

Add(t) ==
    /\ Cardinality(g.triples \cup {t}) <= MaxTriples
    /\ g' = GraphAdd(g, t)
    /\ last' = Call("add", t, g, {}, "")
    /\ before' = Summary(last)
    /\ UNCHANGED notGraph

Remove(t) ==
    /\ g' = GraphRemove(g, t).g
    /\ last' = Call("remove", t, g, {}, GraphRemove(g, t).err)
    /\ before' = Summary(last)
    /\ UNCHANGED notGraph

Match(pat) ==
    LET m == GraphMatch(g, pat.subject, pat.predicate, pat.object)
    IN  /\ g' = m.g
        /\ last' = Call("match", pat, g, m.res, "")
        /\ before' = Summary(last)
        /\ UNCHANGED notGraph

RemoveMatches(pat) ==
    LET m == GraphMatch(g, pat.subject, pat.predicate, pat.object)
    IN  \E first \in IF m.res = {} THEN {NoTriple} ELSE m.res :
          LET r == GraphRemoveMatches(g, pat.subject, pat.predicate,
                                      pat.object, first)
          IN  /\ g' = r.g
              /\ last' = Call("removeMatches", pat, g, m.res, r.err)
              /\ before' = Summary(last)
              /\ UNCHANGED notGraph

AddAll(other) ==
    /\ Cardinality(g.triples \cup other.triples) <= MaxTriples
    /\ g' = GraphAddAll(g, other.triples)
    /\ last' = OpRecord("addAll", NoTriple, g, {}, "", other, other, NoGraph)
    /\ before' = Summary(last)
    /\ UNCHANGED notGraph

Merge(other) ==
    LET m == GraphMerge(g, other)
    IN  /\ g' = m.self
        /\ last' = OpRecord("merge", NoTriple, g, {}, "", other, m.other,
                            m.new)
        /\ before' = Summary(last)
        /\ UNCHANGED notGraph

Next ==
    \/ \E t \in Triples : Add(t)
    \/ \E t \in Triples : Remove(t)
    \/ \E pat \in Patterns : Match(pat)
    \/ \E pat \in RemovePatterns : RemoveMatches(pat)
    \/ \E other \in Others : AddAll(other)
    \/ \E other \in Others : Merge(other)



(***************************************************************************)
(* Dataset                                                                 *)
(***************************************************************************)

\* class Quad(tuple): Quad(subject, predicate, object, graph).
Quad(s, p, o, gn) == [subject |-> s, predicate |-> p, object |-> o,
                      graph |-> gn]

q_as_t(quad) == Triple(quad.subject, quad.predicate, quad.object)

\* A faulty widening: the graph name is lost.
t_as_qDropsName(graph_name, triple) ==
    Quad(triple.subject, triple.predicate, triple.object, None)

t_as_q(graph_name, triple) ==
    Quad(triple.subject, triple.predicate, triple.object, graph_name)

\* The graph names, triples and patterns the Dataset machine draws from.
GraphNames ==
    {NamedNode(""), NamedNode("http://ex/g1"), NamedNode("http://ex/g2")}

\* What a caller passes as graph to match: a name or None.
GraphArgs == GraphNames \cup {None}

DsTriples ==
    {Triple(NamedNode("http://ex/s"), p, NamedNode("http://ex/o")) :
        p \in Predicates}

\* Two quads of the graph g1, one of g2 and one of the graph named by the
\* empty string.
Quads ==
    {q \in {t_as_q(n, t) : n \in GraphNames, t \in DsTriples} :
        q.graph = NamedNode("http://ex/g1")
        \/ q.predicate = NamedNode("http://ex/p")}

\* The quads added to and removed from a dataset of caller-constructed
\* graphs: one of the graph g1 and one of g2.
GraphQuads ==
    {q \in Quads : /\ q.predicate = NamedNode("http://ex/p")
                   /\ q.graph # NamedNode("")}

\* The graph_uri a caller constructs a Graph with: none, or the empty name.
CreateUris == {None, NamedNode("")}

\* The name a caller passes to add_graph.
NamedArgs == {None, NamedNode("http://ex/g2")}

DsPatterns ==
    {Triple(None, None, None),
     Triple(NamedNode("http://ex/s"), None, None),
     Triple(NamedNode("http://ex/s"), NamedNode("http://ex/p"),
            NamedNode("http://ex/o"))}

\* A Dataset and the Graph objects it can refer to: graphs is the
\* defaultdict(Graph) self._graphs, from names to object identities; heap
\* holds every Graph object by identity, so that one object registered under
\* two names is one object.
NewDataset == [graphs |-> EmptyIndex, heap |-> EmptyIndex]

\* The identity of the next Graph object constructed.
FreshId(st) == Cardinality(DOMAIN st.heap) + 1

\* Graph(graph_uri) constructed by the caller.
ConstructGraph(st, uri) ==
    [st EXCEPT !.heap = IdxPut(@, FreshId(st),
                               NewGraph(IF uri = None THEN DefaultUri
                                        ELSE uri))]

\* self._graphs[name]: a missing name is bound to a new Graph().
GetGraph(st, name) ==
    IF name \in DOMAIN st.graphs
    THEN [st |-> st, id |-> st.graphs[name]]
    ELSE [st |-> [graphs |-> IdxPut(st.graphs, name, FreshId(st)),
                  heap |-> IdxPut(st.heap, FreshId(st), NewGraph(DefaultUri))],
          id |-> FreshId(st)]

\* A faulty add: the graph is looked up and named, the triple is not added.
DatasetAddNamesOnly(st, quad) ==
    LET r == GetGraph(st, quad.graph)
    IN  [r.st EXCEPT !.heap[r.id].uri = quad.graph]

\* Dataset.add
DatasetAdd(st, quad) ==
    LET r == GetGraph(st, quad.graph)
    IN  [r.st EXCEPT !.heap[r.id] =
            GraphAdd([@ EXCEPT !.uri = quad.graph], q_as_t(quad))]

\* Dataset.remove
DatasetRemove(st, quad) ==
    LET r == GetGraph(st, quad.graph)
        rm == GraphRemove(r.st.heap[r.id], q_as_t(quad))
    IN  [st |-> [r.st EXCEPT !.heap[r.id] = rm.g], err |-> rm.err]

\* Dataset.add_graph of the Graph object id
DatasetAddGraph(st, id, named) ==
    LET name == IF Truthy(named) THEN named ELSE st.heap[id].uri
    IN  IF Truthy(name)
        THEN [st |-> [graphs |-> IdxPut(st.graphs, name, id),
                      heap |-> [st.heap EXCEPT ![id].uri = name]],
              err |-> ""]
        ELSE [st |-> st, err |-> "ValueError"]

\* Dataset.match, consumed to its end: the quads it yields and the dataset
\* after the reads it made.
DatasetMatch(st, s, p, o, graph) ==
    IF Truthy(graph)
    THEN LET r == GetGraph(st, graph)
             m == GraphMatch(r.st.heap[r.id], s, p, o)
         IN  [st |-> [r.st EXCEPT !.heap[r.id] = m.g],
              res |-> {t_as_q(graph, t) : t \in m.res}]
    ELSE [st |-> [st EXCEPT !.heap =
                    [i \in DOMAIN st.heap |->
                       IF i \in Values(st.graphs)
                       THEN GraphMatch(st.heap[i], s, p, o).g
                       ELSE st.heap[i]]],
          res |-> UNION {{t_as_q(k, t) :
                            t \in GraphMatch(st.heap[st.graphs[k]],
                                             s, p, o).res} :
                         k \in DOMAIN st.graphs}]

\* The registered names whose graph yields nothing for the pattern: the
\* graphs an unbound match passes over before the first quad.
Silent(st, s, p, o) ==
    {k \in DOMAIN st.graphs :
        GraphMatch(st.heap[st.graphs[k]], s, p, o).res = {}}

\* The heap after match has read the graphs registered under the names ks.
Visit(st, ks, s, p, o) ==
    [i \in DOMAIN st.heap |->
        IF \E k \in ks : st.graphs[k] = i
        THEN GraphMatch(st.heap[i], s, p, o).g
        ELSE st.heap[i]]

\* Dataset.removeMatches: "for quad in self.match(...): self.remove(quad)".
\* match is a generator over the generators of Graph.match: the first quad
\* it yields (first) is removed from its graph while they are suspended, and
\* the next step of one reading a live dict or set raises RuntimeError.
\* Without a graph the graphs registered under visited were read before the
\* one that yielded first. With subject, predicate and object bound no
\* container is read, and the triple is removed from each graph in turn.
DatasetRemoveMatches(st, s, p, o, graph, first, visited) ==
    LET m == DatasetMatch(st, s, p, o, graph)
        live == GraphMatch(NewGraph(DefaultUri), s, p, o).live
    IN  IF m.res = {}
        THEN [st |-> m.st, err |-> ""]
        ELSE IF Truthy(graph)
        THEN [st |-> DatasetRemove(m.st, first).st,
              err |-> IF live THEN "RuntimeError" ELSE ""]
        ELSE IF live
        THEN [st |-> DatasetRemove(
                        [st EXCEPT !.heap =
                            Visit(st, visited \cup {first.graph}, s, p, o)],
                        first).st,
              err |-> "RuntimeError"]
        ELSE [st |-> [st EXCEPT !.heap =
                        [i \in DOMAIN st.heap |->
                            IF i \in Values(st.graphs)
                            THEN GraphRemove(st.heap[i], Triple(s, p, o)).g
                            ELSE st.heap[i]]],
              err |-> ""]

(***************************************************************************)
(* The Dataset state machine: one Dataset ds, the call last completed on   *)
(* it (dlast) and the one before that (dbefore).                           *)
(***************************************************************************)
\* Largest number of Graph objects constructed.
MaxGraphs == 2

NoQuad == Quad(None, None, None, None)

\* The record of a completed Dataset call: the operation, its argument (a
\* quad or a pattern with its graph), the dataset before the call, the quads
\* a match yielded and the first of them, the error raised, and the identity
\* of the Graph object passed to add_graph (0 for the other calls).
DsCall(op, arg, pre, res, first, err) ==
    [op |-> op, arg |-> arg, pre |-> pre, res |-> res, first |-> first,
     err |-> err, id |-> 0]

\* What dbefore keeps of a call: of an add, its quad.
DsSummary(r) ==
    IF r.op = "add"
    THEN [op |-> "add", arg |-> r.arg]
    ELSE [op |-> "other", arg |-> NoQuad]

\* self._graphs[name] constructs no Graph object beyond the model's bound.
CanGet(name) ==
    name \in DOMAIN ds.graphs \/ Cardinality(DOMAIN ds.heap) < MaxGraphs

InitDataset ==
    /\ ds = NewDataset
    /\ dlast = DsCall("init", NoQuad, NewDataset, {}, NoQuad, "")
    /\ dbefore = DsSummary(DsCall("init", NoQuad, NewDataset, {}, NoQuad, ""))

CreateGraph(uri) ==
    /\ Cardinality(DOMAIN ds.heap) < MaxGraphs
    /\ ds' = ConstructGraph(ds, uri)
    /\ dlast' = DsCall("Graph", Quad(None, None, None, uri), ds, {}, NoQuad,
                       "")
    /\ dbefore' = DsSummary(dlast)
    /\ UNCHANGED notDataset

DsAdd(quad) ==
    /\ CanGet(quad.graph)
    /\ ds' = DatasetAdd(ds, quad)
    /\ dlast' = DsCall("add", quad, ds, {}, NoQuad, "")
    /\ dbefore' = DsSummary(dlast)
    /\ UNCHANGED notDataset

DsRemove(quad) ==
    /\ CanGet(quad.graph)
    /\ ds' = DatasetRemove(ds, quad).st
    /\ dlast' = DsCall("remove", quad, ds, {}, NoQuad,
                       DatasetRemove(ds, quad).err)
    /\ dbefore' = DsSummary(dlast)
    /\ UNCHANGED notDataset

DsAddGraph(id, named) ==
    /\ ds' = DatasetAddGraph(ds, id, named).st
    /\ dlast' = [DsCall("add_graph", Quad(None, None, None, named), ds, {},
                        NoQuad, DatasetAddGraph(ds, id, named).err)
                    EXCEPT !.id = id]
    /\ dbefore' = DsSummary(dlast)
    /\ UNCHANGED notDataset

DsMatch(pat, graph) ==
    LET m == DatasetMatch(ds, pat.subject, pat.predicate, pat.object, graph)
    IN  /\ Truthy(graph) => CanGet(graph)
        /\ ds' = m.st
        /\ \E first \in IF m.res = {} THEN {NoQuad} ELSE m.res :
             dlast' = DsCall("match", t_as_q(graph, pat), ds, m.res, first,
                             "")
        /\ dbefore' = DsSummary(dlast)
        /\ UNCHANGED notDataset

DsRemoveMatches(pat, graph) ==
    LET m == DatasetMatch(ds, pat.subject, pat.predicate, pat.object, graph)
    IN  /\ Truthy(graph) => CanGet(graph)
        /\ \E first \in IF m.res = {} THEN {NoQuad} ELSE m.res :
             \E visited \in SUBSET Silent(ds, pat.subject, pat.predicate,
                                           pat.object) :
               LET r == DatasetRemoveMatches(ds, pat.subject, pat.predicate,
                                             pat.object, graph, first,
                                             visited)
               IN  /\ ds' = r.st
                   /\ dlast' = DsCall("removeMatches", t_as_q(graph, pat),
                                      ds, m.res, first, r.err)
        /\ dbefore' = DsSummary(dlast)
        /\ UNCHANGED notDataset

\* Calls on a dataset whose graphs are all created by the Dataset itself.
NextDs ==
    \/ \E quad \in Quads : DsAdd(quad)
    \/ \E quad \in Quads : DsRemove(quad)
    \/ \E pat \in DsPatterns, graph \in GraphArgs : DsMatch(pat, graph)

\* Calls that fill a dataset and remove by pattern.
NextDsRemove ==
    \/ \E quad \in Quads : DsAdd(quad)
    \/ \E pat \in DsPatterns, graph \in GraphArgs :
            DsRemoveMatches(pat, graph)

\* Calls on a dataset with Graph objects the caller constructs and registers.
NextDsGraphs ==
    \/ \E uri \in CreateUris : CreateGraph(uri)
    \/ \E id \in DOMAIN ds.heap, named \in NamedArgs : DsAddGraph(id, named)
    \/ \E quad \in GraphQuads : DsAdd(quad)
    \/ \E quad \in GraphQuads : DsRemove(quad)
    \/ \E pat \in DsPatterns, graph \in NamedArgs : DsMatch(pat, graph)

(***************************************************************************)
(* Literal                                                                 *)
(***************************************************************************)
\* Largest absolute value of the host integers a Literal is constructed of.
MaxInt == 12

\* Host values, each with its Python type: an int, a str or unicode string,
\* a datetime, and a value of another type, given by its repr.
HostInt(n) == [type |-> "int", int |-> n]

HostStr(type, v) == [type |-> type, str |-> v]

HostDateTime(d) == [type |-> "datetime", datetime |-> d]

HostOther(type, repr) == [type |-> type, repr |-> repr]

\* datetime.datetime(year, month, day, hour, minute, second, microsecond)
DateTime(y, mo, d, h, mi, sec, us) ==
    [year |-> y, month |-> mo, day |-> d, hour |-> h, minute |-> mi,
     second |-> sec, microsecond |-> us]

Digit(d) == <<"0", "1", "2", "3", "4", "5", "6", "7", "8", "9">>[d + 1]

\* The decimal digits of a natural number.
RECURSIVE NatStr(_)
NatStr(n) == IF n < 10 THEN Digit(n) ELSE NatStr(n \div 10) \o Digit(n % 10)

\* str(v) of an int.
IntStr(n) == IF n < 0 THEN "-" \o NatStr(0 - n) ELSE NatStr(n)

\* "%0wd" % n
RECURSIVE Pad(_, _)
Pad(n, w) == IF w = 0 THEN "" ELSE Pad(n \div 10, w - 1) \o Digit(n % 10)

\* v.isoformat() of a datetime without tzinfo.
IsoFormat(d) ==
    Pad(d.year, 4) \o "-" \o Pad(d.month, 2) \o "-" \o Pad(d.day, 2) \o "T"
    \o Pad(d.hour, 2) \o ":" \o Pad(d.minute, 2) \o ":" \o Pad(d.second, 2)
    \o (IF d.microsecond = 0 THEN "" ELSE "." \o Pad(d.microsecond, 6))

XsdInteger == NamedNode("http://www.w3.org/2001/XMLSchema#integer")

XsdDateTime == NamedNode("http://www.w3.org/2001/XMLSchema#dateTime")

XsdString == NamedNode("http://www.w3.org/2001/XMLSchema#string")

\* Literal.types: the host types with a conversion.
RegisteredTypes == {"int", "datetime"}

\* Literal.types[type(value)](value): the lexical string and the datatype.
Convert(value) ==
    IF value.type = "int"
    THEN [value |-> IntStr(value.int), datatype |-> XsdInteger]
    ELSE [value |-> IsoFormat(value.datetime), datatype |-> XsdDateTime]

\* The tuple (value, language, datatype) of a Literal.
LiteralTuple(value, language, datatype) ==
    [value |-> value, language |-> language, datatype |-> datatype]

NoLiteral == LiteralTuple(None, None, None)

\* A faulty constructor: the converted value never receives its datatype.
LiteralWithoutAutoDatatype(value, language, datatype) ==
    IF value.type \in {"str", "unicode"}
    THEN [out |-> LiteralTuple(value.str, language, datatype), err |-> ""]
    ELSE IF value.type \in RegisteredTypes
    THEN [out |-> LiteralTuple(Convert(value).value, language, datatype),
          err |-> ""]
    ELSE [out |-> NoLiteral, err |-> "KeyError"]

\* Literal.__new__: a str or unicode value is kept; any other value is
\* converted by the entry of Literal.types for its exact type, which gives
\* the datatype when none is passed; a type without entry raises KeyError.
Literal(value, language, datatype) ==
    IF value.type \in {"str", "unicode"}
    THEN [out |-> LiteralTuple(value.str, language, datatype), err |-> ""]
    ELSE IF value.type \in RegisteredTypes
    THEN [out |-> LiteralTuple(Convert(value).value, language,
                               IF datatype = None
                               THEN Convert(value).datatype
                               ELSE datatype),
          err |-> ""]
    ELSE [out |-> NoLiteral, err |-> "KeyError"]

\* The host values the model constructs literals of: strings, ints,
\* datetimes, and values of types that are not registered (bool and long
\* are not int for the lookup by exact type).
HostInts == {HostInt(n) : n \in (0 - MaxInt)..MaxInt}

HostValues ==
    HostInts
    \cup {HostStr(ty, v) : ty \in {"str", "unicode"}, v \in {"", "1", "a"}}
    \cup {HostDateTime(DateTime(2001, 2, 3, 4, 5, 6, 0)),
          HostDateTime(DateTime(2026, 11, 5, 0, 0, 0, 70))}
    \cup {HostOther("float", "1.5"), HostOther("bool", "True"),
          HostOther("long", "1L"), HostOther("NoneType", "None")}

Languages == {None, "en"}

Datatypes == {None, XsdInteger, XsdString}

\* The record of a Literal construction: the arguments, the literal made
\* and the error raised.
LitCall(op, value, language, datatype, r) ==
    [op |-> op, value |-> value, language |-> language,
     datatype |-> datatype, out |-> r.out, err |-> r.err]

InitLiteral ==
    lit = LitCall("init", HostOther("NoneType", "None"), None, None,
                  [out |-> NoLiteral, err |-> ""])

NewLiteral(value, language, datatype) ==
    /\ lit' = LitCall("Literal", value, language, datatype,
                      Literal(value, language, datatype))
    /\ UNCHANGED notLiteral

NextLiteral ==
    \E value \in HostValues, language \in Languages, datatype \in Datatypes :
        NewLiteral(value, language, datatype)

(***************************************************************************)
(* BlankNode                                                               *)
(***************************************************************************)
\* Largest number of BlankNode objects constructed.
MaxBlank == 2

\* A faulty BlankNode: equality by content, and a BlankNode has no fields.
BlankNodeByContent(id) == "_:"

\* class BlankNode(object) defines neither __eq__ nor __hash__: an object is
\* equal to itself only, so the term is the identity of the object (id is
\* the rank of its construction).
BlankNode(id) == "_:" \o NatStr(id)

\* The triples about the BlankNode object id, one per predicate.
BlankTriple(id, p) == Triple(BlankNode(id), p, NamedNode("http://ex/o"))

\* The record of a call of the BlankNode machine: the operation, the
\* BlankNode object passed as subject (0: none), the predicate passed
\* (None: none) and the triples a match yielded.
BlankCall(op, node, p, res) ==
    [op |-> op, node |-> node, predicate |-> p, res |-> res]

InitBlank ==
    /\ bnodes = 0
    /\ bgraph = NewGraph(DefaultUri)
    /\ badded = {}
    /\ blast = BlankCall("init", 0, None, {})

\* b = BlankNode()
NewBlankNode ==
    /\ bnodes < MaxBlank
    /\ bnodes' = bnodes + 1
    /\ blast' = BlankCall("BlankNode", bnodes + 1, None, {})
    /\ UNCHANGED <<bgraph, badded>>
    /\ UNCHANGED notBlank

\* bgraph.add(Triple(b, p, o)) for the BlankNode object b of identity id
BlankAdd(id, p) ==
    /\ bgraph' = GraphAdd(bgraph, BlankTriple(id, p))
    /\ badded' = badded \cup {<<id, p>>}
    /\ blast' = BlankCall("add", id, p, {})
    /\ UNCHANGED bnodes
    /\ UNCHANGED notBlank

\* bgraph.match(b, p, None) and bgraph.match(b, p, o)
BlankMatch(id, p, o) ==
    LET m == GraphMatch(bgraph, BlankNode(id), p, o)
    IN  /\ bgraph' = m.g
        /\ blast' = BlankCall("match", id, p, m.res)
        /\ UNCHANGED <<bnodes, badded>>
        /\ UNCHANGED notBlank

NextBlank ==
    \/ NewBlankNode
    \/ \E id \in 1..bnodes, p \in Predicates : BlankAdd(id, p)
    \/ \E id \in 1..bnodes, p \in Predicates \cup {None},
          o \in Objects \cup {None} : BlankMatch(id, p, o)

(***************************************************************************)
(* Graph.add and Graph.remove under a second thread of control. The source *)
(* takes no lock, and the interpreter can switch threads between any two   *)
(* statements: each action of the writer is one statement of add or        *)
(* remove, and the reader's calls run between any two of them.             *)
(***************************************************************************)
Idle == [op |-> "none", t |-> NoTriple, done |-> 0]

\* Where the writer is: in op(t), with its first done statements executed.
Writer(op, t, done) == [op |-> op, t |-> t, done |-> done]

\* What the reader observed of the triple t: "t in g", and whether t is
\* among the triples yielded by match(s, p, None) (read from the SPO tree),
\* match(None, p, o) (POS) and match(s, None, o) (OSP).
Observation(gr, t) ==
    [op |-> "observe", t |-> t,
     inSet |-> GraphContains(gr, t),
     viaSpo |-> t \in GraphMatch(gr, t.subject, t.predicate, None).res,
     viaPos |-> t \in GraphMatch(gr, None, t.predicate, t.object).res,
     viaOsp |-> t \in GraphMatch(gr, t.subject, None, t.object).res]

\* The graph after the reads of those three match calls.
Observed(gr, t) ==
    GraphMatch(GraphMatch(GraphMatch(gr, t.subject, t.predicate, None).g,
                          None, t.predicate, t.object).g,
               t.subject, None, t.object).g

InitThreads ==
    /\ tg = NewGraph(DefaultUri)
    /\ writer = Idle
    /\ seen = [op |-> "init", t |-> NoTriple, inSet |-> FALSE,
               viaSpo |-> FALSE, viaPos |-> FALSE, viaOsp |-> FALSE]

\* add: self._triples.add(triple)
AddToSet(t) ==
    /\ writer = Idle
    /\ tg' = [tg EXCEPT !.triples = @ \cup {t}]
    /\ writer' = Writer("add", t, 1)
    /\ UNCHANGED seen
    /\ UNCHANGED notThreads

\* add: self._spo[triple.subject][triple.predicate][triple.object] = triple
AddToSpo ==
    /\ writer.op = "add" /\ writer.done = 1
    /\ tg' = [tg EXCEPT !.spo = Store3(@, writer.t.subject,
                                       writer.t.predicate, writer.t.object,
                                       writer.t)]
    /\ writer' = [writer EXCEPT !.done = 2]
    /\ UNCHANGED seen
    /\ UNCHANGED notThreads

\* add: self._pos[triple.predicate][triple.object][triple.subject] = triple
AddToPos ==
    /\ writer.op = "add" /\ writer.done = 2
    /\ tg' = [tg EXCEPT !.pos = Store3(@, writer.t.predicate,
                                       writer.t.object, writer.t.subject,
                                       writer.t)]
    /\ writer' = [writer EXCEPT !.done = 3]
    /\ UNCHANGED seen
    /\ UNCHANGED notThreads

\* add: self._osp[triple.object][triple.subject][triple.predicate] = triple
\* and the return
AddToOsp ==
    /\ writer.op = "add" /\ writer.done = 3
    /\ tg' = [tg EXCEPT !.osp = Store3(@, writer.t.object,
                                       writer.t.subject, writer.t.predicate,
                                       writer.t)]
    /\ writer' = Idle
    /\ UNCHANGED seen
    /\ UNCHANGED notThreads

\* remove: self._triples.remove(triple), which raises KeyError and ends the
\* call when the triple is absent
RemoveFromSet(t) ==
    /\ writer = Idle
    /\ IF t \in tg.triples
       THEN /\ tg' = [tg EXCEPT !.triples = @ \ {t}]
            /\ writer' = Writer("remove", t, 1)
       ELSE UNCHANGED <<tg, writer>>
    /\ UNCHANGED seen
    /\ UNCHANGED notThreads

\* remove: del self._spo[triple.subject][triple.predicate][triple.object]
RemoveFromSpo ==
    /\ writer.op = "remove" /\ writer.done = 1
    /\ tg' = [tg EXCEPT !.spo = Del3(@, writer.t.subject,
                                     writer.t.predicate, writer.t.object)]
    /\ writer' = [writer EXCEPT !.done = 2]
    /\ UNCHANGED seen
    /\ UNCHANGED notThreads

\* remove: del self._pos[triple.predicate][triple.object][triple.subject]
RemoveFromPos ==
    /\ writer.op = "remove" /\ writer.done = 2
    /\ tg' = [tg EXCEPT !.pos = Del3(@, writer.t.predicate,
                                     writer.t.object, writer.t.subject)]
    /\ writer' = [writer EXCEPT !.done = 3]
    /\ UNCHANGED seen
    /\ UNCHANGED notThreads

\* remove: del self._osp[triple.object][triple.subject][triple.predicate]
\* and the return
RemoveFromOsp ==
    /\ writer.op = "remove" /\ writer.done = 3
    /\ tg' = [tg EXCEPT !.osp = Del3(@, writer.t.object,
                                     writer.t.subject, writer.t.predicate)]
    /\ writer' = Idle
    /\ UNCHANGED seen
    /\ UNCHANGED notThreads

\* The reader, scheduled between two statements of the writer: "t in g" and
\* the three match calls.
Observe(t) ==
    /\ seen' = Observation(tg, t)
    /\ tg' = Observed(tg, t)
    /\ UNCHANGED writer
    /\ UNCHANGED notThreads

NextThreads ==
    \/ \E t \in DsTriples : AddToSet(t)
    \/ AddToSpo
    \/ AddToPos
    \/ AddToOsp
    \/ \E t \in DsTriples : RemoveFromSet(t)
    \/ RemoveFromSpo
    \/ RemoveFromPos
    \/ RemoveFromOsp
    \/ \E t \in DsTriples : Observe(t)

Init == InitGraph /\ InitDataset /\ InitLiteral /\ InitBlank /\ InitThreads

\* The Graph machine.
Spec == Init /\ [][Next]_vars

\* The Dataset machine.
SpecDs == Init /\ [][NextDs]_vars

\* The Dataset machine with removeMatches.
SpecDsRemove == Init /\ [][NextDsRemove]_vars

\* The Dataset machine with caller-constructed graphs.
SpecDsGraphs == Init /\ [][NextDsGraphs]_vars

\* The Literal machine.
SpecLiteral == Init /\ [][NextLiteral]_vars

\* The BlankNode machine.
SpecBlank == Init /\ [][NextBlank]_vars

\* The writer and the reader of one Graph.
SpecThreads == Init /\ [][NextThreads]_vars

(***************************************************************************)
(* Properties of Graph                                                     *)
(***************************************************************************)

\* An argument is bound when the caller passed a term, not None.
Bound(x) == x # None

\* Brute force: the triples of gr equal to the pattern on its bound fields.
Filter(gr, pat) ==
    {t \in gr.triples :
        /\ Bound(pat.subject) => t.subject = pat.subject
        /\ Bound(pat.predicate) => t.predicate = pat.predicate
        /\ Bound(pat.object) => t.object = pat.object}

\* The value stored at idx[a][b][c] is t.
StoredAt(idx, a, b, c, t) == Has3(idx, a, b, c) /\ idx[a][b][c] = t

\* Every value stored at a leaf of idx.
Leaves(idx) ==
    UNION {UNION {Values(idx[a][b]) : b \in DOMAIN idx[a]} : a \in DOMAIN idx}

\* The primary set and the three index trees of gr hold the same triples.
Synced(gr) ==
    /\ \A t \in Triples :
         /\ t \in gr.triples <=>
              StoredAt(gr.spo, t.subject, t.predicate, t.object, t)
         /\ t \in gr.triples <=>
              StoredAt(gr.pos, t.predicate, t.object, t.subject, t)
         /\ t \in gr.triples <=>
              StoredAt(gr.osp, t.object, t.subject, t.predicate, t)
    /\ Leaves(gr.spo) = gr.triples
    /\ Leaves(gr.pos) = gr.triples
    /\ Leaves(gr.osp) = gr.triples

\* What a caller can observe of a graph: its length, its members and the
\* result of every match pattern.
Obs(gr) ==
    [len |-> GraphLen(gr),
     members |-> {t \in Triples : GraphContains(gr, t)},
     matches |-> [pat \in Patterns |->
                    GraphMatch(gr, pat.subject, pat.predicate,
                               pat.object).res]]

\* C1: after every completed Graph operation, failed calls included, a
\* triple is in the primary set iff it is stored at its own path in the
\* SPO, the POS and the OSP tree; the same holds of the graph merge returns.
C1_FourStructuresAgree ==
    /\ Synced(g)
    /\ last.op = "merge" => Synced(last.out)

\* C1 witness: a call has just failed half-way through a non-empty graph.
C1_Witness ==
    /\ last.op = "removeMatches"
    /\ last.err = "RuntimeError"
    /\ g.triples # {}

\* C2: the triples match yields are exactly those of the graph that equal
\* the pattern on every bound (non-None) field.
C2_MatchIsBruteForceFilter ==
    last.op = "match" => last.res = Filter(last.pre, last.arg)

\* C3: after add(t), t is in g and match(t.subject, t.predicate, t.object)
\* yields exactly {t}.
C3_AddThenMatchYieldsOnlyT ==
    (before.op = "add" /\ last.op = "match" /\ last.arg = before.arg)
        => (GraphContains(g, before.arg) /\ last.res = {before.arg})

\* C4: add is idempotent: a second add(t) right after add(t), and any add
\* of a triple already present, leaves len, membership and the result of
\* every match pattern as they were.
C4_AddIdempotent ==
    /\ (before.op = "add" /\ last.op = "add" /\ last.arg = before.arg)
          => Obs(g) = Obs(last.pre)
    /\ (last.op = "add" /\ GraphContains(last.pre, last.arg))
          => Obs(g) = Obs(last.pre)

\* C4 witness: add(t); add(t) on a graph that holds another triple too.
C4_Witness ==
    /\ before.op = "add"
    /\ last.op = "add"
    /\ last.arg = before.arg
    /\ GraphLen(g) = 2

\* C5 as claimed: after add(t); remove(t), len(g) and "t in g" are what they
\* were before the add, whatever the graph held.
C5_RemoveUndoesAdd ==
    (before.op = "add" /\ last.op = "remove" /\ last.arg = before.arg)
        => /\ GraphLen(g) = before.len
           /\ GraphContains(g, last.arg) = before.has

\* C5 amended: after add(t); remove(t) with t not in g before the add,
\* len(g) and "t in g" are what they were before the add.
C5_RemoveUndoesAddOfAbsent ==
    (before.op = "add" /\ ~before.has /\ last.op = "remove"
     /\ last.arg = before.arg)
        => /\ last.err = ""
           /\ GraphLen(g) = before.len
           /\ GraphContains(g, last.arg) = before.has

\* C5 witness: add(t); remove(t) of a new triple on a non-empty graph.
C5_Witness ==
    /\ before.op = "add"
    /\ ~before.has
    /\ before.len = 1
    /\ last.op = "remove"
    /\ last.arg = before.arg

\* C6: remove of a triple that is not a member fails with KeyError (the
\* NotFound condition) and leaves the set and the three trees untouched.
C6_RemoveAbsentRejected ==
    (last.op = "remove" /\ ~GraphContains(last.pre, last.arg))
        => (last.err = "KeyError" /\ g = last.pre)

\* C6 witness: a failed remove on a graph that holds other triples.
C6_Witness ==
    /\ last.op = "remove"
    /\ ~GraphContains(last.pre, last.arg)
    /\ last.err = "KeyError"
    /\ g.triples # {}

\* C7: removeMatches completes without error and leaves exactly the triples
\* that match did not yield for the pattern.
C7_RemoveMatchesRemovesAll ==
    last.op = "removeMatches"
        => (last.err = "" /\ g.triples = last.pre.triples \ last.res)

\* C8: merge returns a new graph holding exactly the union of the triples
\* of self and of the other graph, and changes neither operand.
C8_MergeIsUnion ==
    last.op = "merge"
        => /\ last.out.triples = last.pre.triples \cup last.other.triples
           /\ GraphLen(last.out) =
                Cardinality(last.pre.triples \cup last.other.triples)
           /\ g = last.pre
           /\ last.otherPost = last.other

\* C8 witness: a merge of two non-empty graphs with different triples.
C8_Witness ==
    /\ last.op = "merge"
    /\ last.pre.triples # {}
    /\ last.other.triples # {}
    /\ last.other.triples \cap last.pre.triples = {}
    /\ GraphLen(last.out) = 3

(***************************************************************************)
(* Properties of Dataset                                                   *)
(***************************************************************************)

\* C9: every graph of the dataset's mapping carries the name it is
\* registered under.
C9_GraphNameIsKey ==
    \A k \in DOMAIN ds.graphs : ds.heap[ds.graphs[k]].uri = k

\* C10 as claimed: after add(q), the first quad match(graph=q.graph) yields
\* is q.
C10_FirstMatchIsAddedQuad ==
    (dbefore.op = "add" /\ dlast.op = "match"
     /\ dlast.arg = Quad(None, None, None, dbefore.arg.graph))
        => dlast.first = dbefore.arg

\* C10 amended: after add(q), q is among the quads match(graph=q.graph)
\* yields, and it is the first of them when it is the only one.
C10_MatchYieldsAddedQuad ==
    (dbefore.op = "add" /\ dlast.op = "match"
     /\ dlast.arg = Quad(None, None, None, dbefore.arg.graph))
        => /\ dbefore.arg \in dlast.res
           /\ Cardinality(dlast.res) = 1 => dlast.first = dbefore.arg

\* C10 witness: add(q), then match(graph=q.graph) on a graph of two triples.
C10_Witness ==
    /\ dbefore.op = "add"
    /\ dlast.op = "match"
    /\ dlast.arg = Quad(None, None, None, dbefore.arg.graph)
    /\ Cardinality(dlast.res) = 2

\* What a caller can see of a dataset: the registered names and the triples
\* of the graph registered under each.
DsContents(st) ==
    [k \in DOMAIN st.graphs |-> st.heap[st.graphs[k]].triples]

\* C11: a remove that fails leaves the registered graph names and the
\* triples of every graph as they were before the call.
C11_FailedRemoveChangesNothing ==
    (dlast.op = "remove" /\ dlast.err # "")
        => DsContents(ds) = DsContents(dlast.pre)

\* The quads of the graph registered under the name k that agree with the
\* pattern pat on its bound fields, each widened with the name tag.
Widened(st, k, pat, tag) ==
    {t_as_q(tag, t) : t \in Filter(st.heap[st.graphs[k]], pat)}

\* What the claim expects of match(subject, predicate, object, graph) on the
\* dataset st: with a graph, the matching triples of the graph registered
\* under it; without one, those of every registered graph under the graph's
\* own name.
ExpectedMatch(st, pat, graph) ==
    IF Bound(graph)
    THEN IF graph \in DOMAIN st.graphs
         THEN Widened(st, graph, pat, graph)
         ELSE {}
    ELSE UNION {Widened(st, k, pat, st.heap[st.graphs[k]].uri) :
                    k \in DOMAIN st.graphs}

\* C12: match yields exactly the matching quads of the named graph when
\* graph is bound, and of every registered graph when it is not.
C12_MatchIsPerGraphFilter ==
    dlast.op = "match"
        => dlast.res = ExpectedMatch(dlast.pre, q_as_t(dlast.arg),
                                     dlast.arg.graph)

\* C13: add_graph without a name, of a graph constructed without a name,
\* fails and leaves the graph mapping unchanged.
C13_UnnamedGraphRejected ==
    (/\ dlast.op = "add_graph"
     /\ dlast.arg.graph = None
     /\ dlast.pre.heap[dlast.id].uri = DefaultUri)
        => dlast.err = "ValueError" /\ ds.graphs = dlast.pre.graphs

\* sum(len(g) for g in ...) over the graphs registered under the names ks.
RECURSIVE SumLen(_, _)
SumLen(st, ks) ==
    IF ks = {}
    THEN 0
    ELSE LET k == CHOOSE x \in ks : TRUE
         IN  GraphLen(st.heap[st.graphs[k]]) + SumLen(st, ks \ {k})

\* Dataset.__len__: self.graphs has one entry per registered name.
DatasetLen(st) == SumLen(st, DOMAIN st.graphs)

\* Dataset.__iter__: the quads yielded, each triple of each registered graph
\* widened with graph.uri.
DatasetIter(st) ==
    UNION {{t_as_q(st.heap[st.graphs[k]].uri, t) :
                t \in st.heap[st.graphs[k]].triples} : k \in DOMAIN st.graphs}

\* Dataset.__contains__ of a quad: no value (false) for an unregistered name.
DatasetContains(st, item) ==
    /\ item.graph \in DOMAIN st.graphs
    /\ GraphContains(st.heap[st.graphs[item.graph]], q_as_t(item))

\* The quads membership is asked of: every triple under every name a graph
\* can carry.
AskedQuads ==
    {t_as_q(n, t) : n \in GraphNames \cup {DefaultUri}, t \in DsTriples}

\* C14: len(ds) is the number of distinct quads iteration yields, and
\* "q in ds" holds exactly for the quads iteration yields.
C14_LenIterContainsAgree ==
    /\ DatasetLen(ds) = Cardinality(DatasetIter(ds))
    /\ \A q \in AskedQuads : DatasetContains(ds, q) <=> q \in DatasetIter(ds)

\* C15: removeMatches completes without error, leaves no quad matching the
\* pattern, and keeps every quad that did not match.
C15_RemoveMatchesRemovesAll ==
    dlast.op = "removeMatches"
        => /\ dlast.err = ""
           /\ DatasetMatch(ds, dlast.arg.subject, dlast.arg.predicate,
                           dlast.arg.object, dlast.arg.graph).res = {}
           /\ DatasetIter(dlast.pre) \ dlast.res \subseteq DatasetIter(ds)

\* C16: q_as_t and t_as_q are exact inverses for the same graph name:
\* narrowing a widened triple gives the triple back, and widening a narrowed
\* quad with its own graph name gives the quad back. Checked on every triple
\* and name of the universe, on the triples stored in the dataset under the
\* names they are registered with, and on the quads the last call took and
\* yielded.
C16_ConversionsAreInverses ==
    /\ \A t \in DsTriples, n \in GraphArgs :
         /\ q_as_t(t_as_q(n, t)) = t
         /\ LET q == Quad(t.subject, t.predicate, t.object, n)
            IN  t_as_q(q.graph, q_as_t(q)) = q
    /\ \A k \in DOMAIN ds.graphs :
         \A t \in ds.heap[ds.graphs[k]].triples : q_as_t(t_as_q(k, t)) = t
    /\ \A q \in dlast.res \cup {dlast.arg} : t_as_q(q.graph, q_as_t(q)) = q

\* C16 witness: a quad was narrowed by add and widened again by a match that
\* yielded it.
C16_Witness ==
    /\ dbefore.op = "add"
    /\ dlast.op = "match"
    /\ dbefore.arg \in dlast.res
    /\ q_as_t(dbefore.arg) \in ds.heap[ds.graphs[dbefore.arg.graph]].triples

(***************************************************************************)
(* Properties of Literal                                                   *)
(***************************************************************************)

\* C17: the literal constructed of the host integer 1 with no datatype is
\* equal to the one constructed of "1", None and xsd:integer; a literal
\* constructed of a value of a registered type with no datatype carries the
\* converted lexical string (for an int the decimal digits, which differ
\* for different ints) and the registered datatype; a value of a type that
\* is neither a string type nor registered is rejected.
C17_LiteralFromHostValue ==
    /\ (/\ lit.op = "Literal"
        /\ lit.value = HostInt(1)
        /\ lit.language = None
        /\ lit.datatype = None)
           => /\ lit.err = ""
              /\ lit.out = Literal(HostStr("str", "1"), None, XsdInteger).out
              /\ lit.out = LiteralTuple("1", None, XsdInteger)
    /\ (/\ lit.op = "Literal"
        /\ lit.value.type \in RegisteredTypes
        /\ lit.datatype = None)
           => /\ lit.err = ""
              /\ lit.out.language = lit.language
              /\ lit.value.type = "int"
                   => /\ lit.out.datatype = XsdInteger
                      /\ \A h \in HostInts :
                           (Literal(h, None, None).out.value = lit.out.value)
                               <=> h = lit.value
              /\ lit.value.type = "datetime"
                   => lit.out.datatype = XsdDateTime
    /\ (/\ lit.op = "Literal"
        /\ lit.value.type \notin RegisteredTypes \cup {"str", "unicode"})
           => lit.err # "" /\ lit.out = NoLiteral

\* C17 witness: Literal(1) was constructed.
C17_Witness ==
    /\ lit.op = "Literal"
    /\ lit.value = HostInt(1)
    /\ lit.language = None
    /\ lit.datatype = None
    /\ lit.out.value = "1"

(***************************************************************************)
(* Properties of BlankNode                                                 *)
(***************************************************************************)

\* C18: two BlankNode objects constructed separately are not equal; so the
\* triples added about distinct nodes are distinct members of the graph (its
\* len is the number of distinct (node, predicate) pairs added: two after
\* adding the same predicate about two nodes to the empty graph), and a
\* match with one node as subject yields that node's triples only.
C18_BlankNodesDistinct ==
    /\ \A i, j \in 1..bnodes : i # j => BlankNode(i) # BlankNode(j)
    /\ GraphLen(bgraph) = Cardinality(badded)
    /\ blast.op = "match"
         => /\ \A t \in blast.res : t.subject = BlankNode(blast.node)
            /\ Cardinality(blast.res) =
                 Cardinality({d \in badded :
                                /\ d[1] = blast.node
                                /\ Bound(blast.predicate)
                                     => d[2] = blast.predicate})

\* C18 witness: the same predicate was added about two nodes and a match
\* with one of them as subject yielded one triple.
C18_Witness ==
    /\ badded = {<<1, NamedNode("http://ex/p")>>, <<2, NamedNode("http://ex/p")>>}
    /\ GraphLen(bgraph) = 2
    /\ blast.op = "match"
    /\ blast.node = 1
    /\ Cardinality(blast.res) = 1

(***************************************************************************)
(* Properties of Graph under two threads and of its index trees            *)
(***************************************************************************)

\* C19: whatever the reader observes of a triple between two statements of
\* an add or a remove, the primary set and the three index trees agree on
\* whether the triple is there.
C19_ReaderSeesWholeUpdates ==
    seen.op = "observe"
        => /\ seen.inSet = seen.viaSpo
           /\ seen.inSet = seen.viaPos
           /\ seen.inSet = seen.viaOsp

\* Every level of the index tree idx below its root holds at least one key.
NoEmptyBranch(idx) ==
    \A a \in DOMAIN idx :
        /\ DOMAIN idx[a] # {}
        /\ \A b \in DOMAIN idx[a] : DOMAIN idx[a][b] # {}

\* C20: no level of the SPO, POS and OSP trees is left empty: once the
\* statements about a subject (predicate, object) are removed, its key and
\* the levels under it are gone from the tree.
C20_NoEmptyBranches ==
    NoEmptyBranch(g.spo) /\ NoEmptyBranch(g.pos) /\ NoEmptyBranch(g.osp)

(***************************************************************************)
(* Frame properties                                                        *)
(***************************************************************************)

\* C21: match leaves the set of registered graph names, and with it
\* Dataset.graphs, as it was before the call.
C21_MatchRegistersNoGraph ==
    dlast.op = "match"
        => /\ DOMAIN ds.graphs = DOMAIN dlast.pre.graphs
           /\ \A k \in DOMAIN dlast.pre.graphs :
                ds.graphs[k] = dlast.pre.graphs[k]

\* Where the triple u is in the graph gr: in the primary set and at its own
\* path of each index tree.
Places(gr, u) ==
    [inSet |-> GraphContains(gr, u),
     inSpo |-> StoredAt(gr.spo, u.subject, u.predicate, u.object, u),
     inPos |-> StoredAt(gr.pos, u.predicate, u.object, u.subject, u),
     inOsp |-> StoredAt(gr.osp, u.object, u.subject, u.predicate, u)]

\* C22: add(t) and a remove(t) that succeeds leave every other triple u
\* where it was, in the primary set and in the three index trees, and
\* change len(g) by at most one.
C22_AddRemoveTouchOnlyT ==
    (last.op = "add" \/ (last.op = "remove" /\ last.err = ""))
        => /\ \A u \in Triples \ {last.arg} :
                Places(g, u) = Places(last.pre, u)
           /\ GraphLen(g) <= GraphLen(last.pre) + 1
           /\ GraphLen(last.pre) <= GraphLen(g) + 1

\* C22 witness: a triple was removed from a graph that holds another
\* triple with the same subject.
C22_Witness ==
    /\ last.op = "remove"
    /\ last.err = ""
    /\ GraphLen(g) + 1 = GraphLen(last.pre)
    /\ \E u \in g.triples : u.subject = last.arg.subject

\* What match(graph=n) yields on the dataset st.
QuadsUnder(st, n) == DatasetMatch(st, None, None, None, n).res

\* C23: add(q) and remove(q) leave the result of match(graph=n) as it was
\* for every registered name n other than q.graph.
C23_GraphsIsolated ==
    (dlast.op = "add" \/ dlast.op = "remove")
        => \A n \in DOMAIN dlast.pre.graphs \ {dlast.arg.graph} :
              QuadsUnder(ds, n) = QuadsUnder(dlast.pre, n)

====
